---------------------------- MODULE Spec2Model ----------------------------
(***************************************************************************)
(* Model of src/app.js (traxplore): the coordinate tiling, the covered     *)
(* set built from the routes, the square-cluster search, the viewport      *)
(* index box and the React state of App / ExplorerTiles that drives them.  *)
(*                                                                         *)
(* Numbers.  Latitudes and longitudes are IEEE doubles in the source; here *)
(* they are fixed-point integers in units of 1/Scale degree (1e-7         *)
(* degree), and every arithmetic result is rounded down to that grid.      *)
(* Tile indices are integers.  Tile keys are the decimal strings the       *)
(* source builds with template literals and parses back with split/Number; *)
(* a string is a sequence of one-character strings.  A JavaScript Set is a *)
(* duplicate-free sequence in insertion order (its iteration order), an    *)
(* Array is a sequence.                                                    *)
(***************************************************************************)
EXTENDS Integers, Sequences, FiniteSets, TLC

VARIABLES
    accessToken,     \* App: useState(null); TRUE once a token is held
    exchanged,       \* App: exchanged.current
    urlCode,         \* whether the page URL carries ?code=
    routes,          \* App: useState([]); an identified array of routes
    selectedType,    \* App: useState("All")
    tilesOn,         \* App: useState(false)
    showStats,       \* App: useState(false)
    filteredRoutes,  \* App: the useMemo cell [deps, value]
    mapBounds,       \* Leaflet: what map.getBounds() returns now
    bounds,          \* useVisibleTiles: useState(map.getBounds())
    conquered,       \* ExplorerTiles: the useMemo cell of the covered set
    square,          \* ExplorerTiles: the useMemo cell of the cluster
    rendered,        \* ExplorerTiles: the Rectangles of the last render
    pc               \* position of the page / of the pure-function harness

vars == << accessToken, exchanged, urlCode, routes, selectedType, tilesOn,
           showStats, filteredRoutes, mapBounds, bounds, conquered, square, rendered, pc >>

---------------------------------------------------------------------------
(* Sequences as arrays and Sets *)

Range(s) == { s[i] : i \in 1..Len(s) }

\* Set.prototype.has
SetHas(s, k) == \E i \in 1..Len(s) : s[i] = k

\* Set.prototype.add: a new key goes last, a present key changes nothing
SetAdd(s, k) == IF SetHas(s, k) THEN s ELSE Append(s, k)

\* keys.forEach((k) => s.add(k)) from position i on
RECURSIVE SetAddAll(_, _, _)
SetAddAll(s, keys, i) ==
    IF i > Len(keys) THEN s ELSE SetAddAll(SetAdd(s, keys[i]), keys, i + 1)

---------------------------------------------------------------------------
(* Number <-> string *)

Digits == << "0", "1", "2", "3", "4", "5", "6", "7", "8", "9" >>

RECURSIVE NatToString(_)
NatToString(n) ==
    IF n < 10 THEN << Digits[n + 1] >>
    ELSE NatToString(n \div 10) \o << Digits[(n % 10) + 1] >>

\* `${n}` for an integer n
NumberToString(n) ==
    IF n < 0 THEN << "-" >> \o NatToString(-n) ELSE NatToString(n)

\* `${x},${y}`
TemplateKey(x, y) == NumberToString(x) \o << "," >> \o NumberToString(y)

DigitValue(c) == CHOOSE d \in 0..9 : Digits[d + 1] = c

RECURSIVE DigitsToNat(_, _, _)
DigitsToNat(s, i, acc) ==
    IF i > Len(s) THEN acc ELSE DigitsToNat(s, i + 1, 10 * acc + DigitValue(s[i]))

\* Number(s) for a decimal integer literal with an optional sign; Number("") is 0
ToNumber(s) ==
    IF Len(s) = 0 THEN 0
    ELSE IF s[1] = "-" THEN 0 - DigitsToNat(s, 2, 0)
    ELSE DigitsToNat(s, 1, 0)

\* k.split(","): the pieces between the commas, from position i on
RECURSIVE SplitComma(_, _, _)
SplitComma(k, i, cur) ==
    IF i > Len(k) THEN << cur >>
    ELSE IF k[i] = "," THEN << cur >> \o SplitComma(k, i + 1, << >>)
    ELSE SplitComma(k, i + 1, Append(cur, k[i]))

\* const [x, y] = key.split(",").map(Number)
ParseKey(key) ==
    LET parts == SplitComma(key, 1, << >>)
    IN  << ToNumber(parts[1]), ToNumber(parts[2]) >>

---------------------------------------------------------------------------
(* Fixed-point degrees *)

\* units per degree
Scale == 10000000

\* Math.floor(a / b) and Math.ceil(a / b) for b > 0
Floor(a, b) == a \div b
Ceil(a, b) == 0 - ((0 - a) \div b)

\* 10^6 * cos(d degrees) at whole degrees d = 0..90
CosTable ==
    << 1000000, 999848, 999391, 998630, 997564, 996195, 994522,
       992546, 990268, 987688, 984808, 981627, 978148, 974370,
       970296, 965926, 961262, 956305, 951057, 945519, 939693,
       933580, 927184, 920505, 913545, 906308, 898794, 891007,
       882948, 874620, 866025, 857167, 848048, 838671, 829038,
       819152, 809017, 798636, 788011, 777146, 766044, 754710,
       743145, 731354, 719340, 707107, 694658, 681998, 669131,
       656059, 642788, 629320, 615661, 601815, 587785, 573576,
       559193, 544639, 529919, 515038, 500000, 484810, 469472,
       453990, 438371, 422618, 406737, 390731, 374607, 358368,
       342020, 325568, 309017, 292372, 275637, 258819, 241922,
       224951, 207912, 190809, 173648, 156434, 139173, 121869,
       104528, 87156, 69756, 52336, 34899, 17452, 0 >>

\* Math.cos((lat * Math.PI) / 180), scaled by 10^6: the table values at the
\* whole degrees around |lat|, interpolated to second order in steps of 1e-4
\* degree (1523e-7 is (pi/180)^2 / 2); within 4e-6 of the cosine
Cos(lat) ==
    LET a == IF lat < 0 THEN 0 - lat ELSE lat
        d == a \div Scale
        f == (a % Scale) \div (Scale \div 10000)
        c0 == CosTable[d + 1]
        c1 == CosTable[d + 2]
        t == (f * (10000 - f)) \div 100
    IN  (c0 - (((c0 - c1) * f) \div 10000))
        + ((((((c0 \div 1000) * t) \div 1000)) * 1523) \div 10000000)

\* the quotient num / den carried to n more decimal digits: q is the integer
\* part found so far and r its remainder
RECURSIVE DecimalDiv(_, _, _, _)
DecimalDiv(q, r, den, n) ==
    IF n = 0 THEN q
    ELSE DecimalDiv(10 * q + ((10 * r) \div den), (10 * r) % den, den, n - 1)

\* const KM_IN_DEG_LAT = 1 / 110.574, in units of 1/Scale degree:
\* 10^10 divided by 110574
KM_IN_DEG_LAT == DecimalDiv(1000000000 \div 110574, 1000000000 % 110574, 110574, 1)

\* const KM_IN_DEG_LNG = (lat) => 1 / (111.32 * Math.cos(...)): first
\* 111.32 * cos scaled by 10^6, then 10^13 divided by it
KM_IN_DEG_LNG(lat) ==
    LET c == Cos(lat)
        k == 111 * c + ((32 * c) \div 100)
    IN  DecimalDiv(1000000000 \div k, 1000000000 % k, k, 4)

---------------------------------------------------------------------------
(* Tile helpers *)

getTileKey(lat, lng) ==
    LET x == Floor(lng, KM_IN_DEG_LNG(lat))
        y == Floor(lat, KM_IN_DEG_LAT)
    IN  TemplateKey(x, y)

\* [[south, west], [north, east]]
getTileBounds(key) ==
    LET xy == ParseKey(key)
        lat == xy[2] * KM_IN_DEG_LAT
        lng == xy[1] * KM_IN_DEG_LNG(lat)
    IN  << << lat, lng >>,
           << lat + KM_IN_DEG_LAT, lng + KM_IN_DEG_LNG(lat + KM_IN_DEG_LAT) >> >>

\* coords.forEach(([lat, lng]) => s.add(getTileKey(lat, lng))) from i on
RECURSIVE AddCoordTiles(_, _, _)
AddCoordTiles(s, coords, i) ==
    IF i > Len(coords) THEN s
    ELSE AddCoordTiles(SetAdd(s, getTileKey(coords[i][1], coords[i][2])), coords, i + 1)

getPolylineTiles(coords) == AddCoordTiles(<< >>, coords, 1)

\* const has = (x, y) => conquered.has(`${x},${y}`)
has(cq, x, y) == SetHas(cq, TemplateKey(x, y))

\* GrowthCheck with the offsets taken from Array(maxLen): the corner tile
\* (x + maxLen, y + maxLen) is never looked at
GrowthCheckNoCorner(cq, x, y, maxLen) ==
    \A i \in 0..(maxLen - 1) : has(cq, x + i, y + maxLen) /\ has(cq, x + maxLen, y + i)

\* GrowthCheck with || for &&
GrowthCheckEither(cq, x, y, maxLen) ==
    \A i \in 0..maxLen : has(cq, x + i, y + maxLen) \/ has(cq, x + maxLen, y + i)

\* GrowthCheck with the new row only: the new column is never looked at
GrowthCheckRowOnly(cq, x, y, maxLen) ==
    \A i \in 0..maxLen : has(cq, x + i, y + maxLen)

\* [...Array(maxLen + 1).keys()].every((i) => has(x+i, y+maxLen) && has(x+maxLen, y+i))
GrowthCheck(cq, x, y, maxLen) ==
    \A i \in 0..maxLen : has(cq, x + i, y + maxLen) /\ has(cq, x + maxLen, y + i)

\* the while loop of one origin: the maxLen it ends with
RECURSIVE Grow(_, _, _, _)
Grow(cq, x, y, maxLen) ==
    IF GrowthCheck(cq, x, y, maxLen) THEN Grow(cq, x, y, maxLen + 1) ELSE maxLen

NoOrigin == << >>

\* Better without the comparison: the last origin wins
BetterLast(best, maxLen, pt) == [size |-> maxLen, origin |-> pt]

\* Better with >= for >: among equal lengths the last origin wins
BetterTieLast(best, maxLen, pt) ==
    IF maxLen >= best.size THEN [size |-> maxLen, origin |-> pt] ELSE best

\* if (maxLen > best.size) best = { size: maxLen, origin: [x, y] }
Better(best, maxLen, pt) ==
    IF maxLen > best.size THEN [size |-> maxLen, origin |-> pt] ELSE best

\* pts.forEach(...) from position i on, threading best
RECURSIVE BestFrom(_, _, _)
BestFrom(cq, i, best) ==
    IF i > Len(cq) THEN best
    ELSE LET pt == ParseKey(cq[i])
         IN  BestFrom(cq, i + 1, Better(best, Grow(cq, pt[1], pt[2], 0), pt))

\* best after the forEach
FindBest(cq) == BestFrom(cq, 1, [size |-> 0, origin |-> NoOrigin])

\* SquareOf with <= for < in both loops
SquareOfInclusive(best) ==
    IF best.origin = NoOrigin THEN << >>
    ELSE LET n == best.size + 1
         IN  [ j \in 1..(n * n) |->
                 TemplateKey(best.origin[1] + ((j - 1) \div n),
                             best.origin[2] + ((j - 1) % n)) ]

\* the two for loops: dx outer, dy inner, each key added to the Set
SquareOf(best) ==
    IF best.origin = NoOrigin THEN << >>
    ELSE LET n == best.size
         IN  [ j \in 1..(n * n) |->
                 TemplateKey(best.origin[1] + ((j - 1) \div n),
                             best.origin[2] + ((j - 1) % n)) ]

findSquareCluster(cq) == SquareOf(FindBest(cq))

---------------------------------------------------------------------------
(* useVisibleTiles and ExplorerTiles *)

\* a LatLngBounds that is not there (!bounds)
NoBounds == [sw |-> << >>, ne |-> << >>]

\* the index box useVisibleTiles returns for its bounds state
useVisibleTiles(b) ==
    IF b = NoBounds THEN [minX |-> 0, maxX |-> 0 - 1, minY |-> 0, maxY |-> 0 - 1]
    ELSE LET sw == b.sw
             ne == b.ne
             centerLat == (sw[1] + ne[1]) \div 2
             lngDeg == KM_IN_DEG_LNG(centerLat)
         IN  [minX |-> Floor(sw[2], lngDeg), maxX |-> Ceil(ne[2], lngDeg),
              minY |-> Floor(sw[1], KM_IN_DEG_LAT), maxY |-> Ceil(ne[1], KM_IN_DEG_LAT)]

\* Hidden with >= for > at the upper edges
HiddenExclusive(xy, box) ==
    xy[1] < box.minX \/ xy[1] >= box.maxX \/ xy[2] < box.minY \/ xy[2] >= box.maxY

\* if (x < minX || x > maxX || y < minY || y > maxY) return null
Hidden(xy, box) ==
    xy[1] < box.minX \/ xy[1] > box.maxX \/ xy[2] < box.minY \/ xy[2] > box.maxY

\* AddRouteTiles with the Set made anew for every route
RECURSIVE AddRouteTilesReset(_, _, _)
AddRouteTilesReset(s, rs, i) ==
    IF i > Len(rs) THEN s
    ELSE AddRouteTilesReset(SetAddAll(<< >>, getPolylineTiles(rs[i].coords), 1), rs, i + 1)

\* routes.forEach((r) => getPolylineTiles(r.coords).forEach((k) => s.add(k)))
RECURSIVE AddRouteTiles(_, _, _)
AddRouteTiles(s, rs, i) ==
    IF i > Len(rs) THEN s
    ELSE AddRouteTiles(SetAddAll(s, getPolylineTiles(rs[i].coords), 1), rs, i + 1)

\* the body of the conquered useMemo
BuildConquered(rs) == AddRouteTiles(<< >>, rs, 1)

\* one <Rectangle>: its key, its bounds and whether it is drawn as a cluster member
Rectangle(key, sq) ==
    [key |-> key, bounds |-> getTileBounds(key), isSq |-> SetHas(sq, key)]

\* Array.from(conquered).map(...) from position i on, the nulls left out
RECURSIVE Rectangles(_, _, _, _)
Rectangles(cq, sq, box, i) ==
    IF i > Len(cq) THEN << >>
    ELSE IF Hidden(ParseKey(cq[i]), box) THEN Rectangles(cq, sq, box, i + 1)
    ELSE << Rectangle(cq[i], sq) >> \o Rectangles(cq, sq, box, i + 1)

\* what ExplorerTiles returns: null (nothing) when not visible
ExplorerTilesOutput(cq, sq, box, visible) ==
    IF ~visible THEN << >> ELSE Rectangles(cq, sq, box, 1)

---------------------------------------------------------------------------
(* React: object identity and useMemo *)

\* the least identity (1, 2, ...) that no live reference in used holds
FreshId(used) ==
    CHOOSE i \in 1..(Cardinality(used) + 1) :
        i \notin used /\ \A j \in 1..(i - 1) : j \in used

\* a memo cell that holds nothing (the component is not mounted)
NoConquered == [deps |-> 0, value |-> [id |-> 0, keys |-> << >>]]
NoSquare == [deps |-> 0, value |-> << >>]

\* routes.filter((r) => r.type === selectedType)
Filter(items, t) == SelectSeq(items, LAMBDA r : r.type = t)

\* the body of the filteredRoutes useMemo; fresh is the identity of a new array
FilterRoutes(r, t, fresh) ==
    IF t = "All" THEN r
    ELSE IF t = "None" THEN [id |-> fresh, items |-> << >>]
    ELSE [id |-> fresh, items |-> Filter(r.items, t)]

\* FilteredRoutesMemo with the dependency list [routes]
FilteredRoutesMemoStale(cell, r, t, fresh) ==
    IF cell.deps[1] = r.id THEN cell
    ELSE [deps |-> << r.id, t >>, value |-> FilterRoutes(r, t, fresh)]

\* useMemo(..., [routes, selectedType]) of App: cell is the stored cell, r and
\* t the values of this render
FilteredRoutesMemo(cell, r, t, fresh) ==
    IF cell.deps = << r.id, t >> THEN cell
    ELSE [deps |-> << r.id, t >>, value |-> FilterRoutes(r, t, fresh)]

\* useMemo(..., [routes]) of ExplorerTiles; a first render has no stored cell
ConqueredMemo(cell, first, prop, fresh) ==
    IF ~first /\ cell.deps = prop.id THEN cell
    ELSE [deps |-> prop.id,
          value |-> [id |-> fresh, keys |-> BuildConquered(prop.items)]]

\* useMemo(() => findSquareCluster(conquered), [conquered])
SquareMemo(cell, first, cq) ==
    IF ~first /\ cell.deps = cq.id THEN cell
    ELSE [deps |-> cq.id, value |-> findSquareCluster(cq.keys)]

---------------------------------------------------------------------------
(* Inputs: the athlete's activities and the viewports the map can show *)

\* how many of the sample activities the Strava account holds
MaxActivities == 3

\* decoded summary polylines ([lat, lng] in 1e-7 degree) with their sport_type
SampleActivities ==
    << [coords |-> << << 515050000, -900000 >>, << 515050000, -750000 >>,
                      << 515140000, -900000 >>, << 515140000, -750000 >> >>,
        type |-> "Ride"],
       [coords |-> << << 515050000, -900000 >>, << 515000000, -1010100 >> >>,
        type |-> "Run"],
       [coords |-> << << 514405000, -6496000 >> >>, type |-> "Hike"],
       [coords |-> << << 515230000, -600000 >> >>, type |-> "Walk"] >>

Activities == SubSeq(SampleActivities, 1, MaxActivities)

\* the subsequence of s at the positions in pos
RECURSIVE Pick(_, _, _)
Pick(s, pos, i) ==
    IF i > Len(s) THEN << >>
    ELSE (IF i \in pos THEN << s[i] >> ELSE << >>) \o Pick(s, pos, i + 1)

\* what the paged fetch can collect: the activities that carry a polyline
Fetchable == { Pick(Activities, pos, 1) : pos \in SUBSET (1..Len(Activities)) }

\* the map at CENTER = [51.505, -0.09], ZOOM = 12 in a 1280 x 800 window
InitialViewport ==
    [sw |-> << 514195000, -3097000 >>, ne |-> << 515905000, 1297000 >>]

\* the same window panned west, and a close zoom on the centre
Viewports ==
    { InitialViewport,
      [sw |-> << 514395000, -6497000 >>, ne |-> << 516105000, -2103000 >>],
      [sw |-> << 515040000, -950000 >>, ne |-> << 515060000, -850000 >>] }

\* filterOptions
FilterTypes == { "Hike", "Walk", "Run", "Ride", "All", "None" }

---------------------------------------------------------------------------
(* The page *)

\* whether <ExplorerTiles> is in the tree: {tilesOn && ...} inside the map,
\* which the statistics page replaces
Mounted(on, stats) == on /\ ~stats

\* one render of App and, when it is in the tree, of ExplorerTiles, after the
\* state has become r (routes), t (selectedType), on (tilesOn), stats
\* (showStats); mb is what map.getBounds() returns and ev says that a map
\* event handler has just called setBounds
Render(r, t, on, stats, mb, ev) ==
    LET first == ~Mounted(tilesOn, showStats)
        fr == FilteredRoutesMemo(filteredRoutes, r, t,
                  FreshId({ r.id, filteredRoutes.value.id, conquered.deps }))
        cq == ConqueredMemo(conquered, first, fr.value,
                  FreshId({ conquered.value.id, square.deps }))
        sq == SquareMemo(square, first, cq.value)
        b == IF first \/ ev THEN mb ELSE bounds
    IN  /\ filteredRoutes' = fr
        /\ IF Mounted(on, stats)
           THEN /\ conquered' = cq
                /\ square' = sq
                /\ bounds' = b
                /\ rendered' = ExplorerTilesOutput(cq.value.keys, sq.value,
                                                   useVisibleTiles(b), on)
           ELSE /\ conquered' = NoConquered
                /\ square' = NoSquare
                /\ bounds' = NoBounds
                /\ rendered' = << >>

\* the state of a freshly loaded page: the useState / useRef initial values
\* and the first render; code says whether the URL carries ?code=
Loaded(code) ==
    [accessToken |-> FALSE, exchanged |-> FALSE, urlCode |-> code,
     routes |-> [id |-> 1, items |-> << >>], selectedType |-> "All",
     tilesOn |-> FALSE, showStats |-> FALSE,
     filteredRoutes |-> [deps |-> << 1, "All" >>, value |-> [id |-> 1, items |-> << >>]],
     mapBounds |-> InitialViewport, bounds |-> NoBounds, conquered |-> NoConquered,
     square |-> NoSquare, rendered |-> << >>, pc |-> "idle"]

\* the page state is st
Start(st) ==
    /\ accessToken = st.accessToken
    /\ exchanged = st.exchanged
    /\ urlCode = st.urlCode
    /\ routes = st.routes
    /\ selectedType = st.selectedType
    /\ tilesOn = st.tilesOn
    /\ showStats = st.showStats
    /\ filteredRoutes = st.filteredRoutes
    /\ mapBounds = st.mapBounds
    /\ bounds = st.bounds
    /\ conquered = st.conquered
    /\ square = st.square
    /\ rendered = st.rendered
    /\ pc = st.pc

\* the page is loaded anew
PageLoad(code) ==
    LET st == Loaded(code)
    IN  /\ accessToken' = st.accessToken
        /\ exchanged' = st.exchanged
        /\ urlCode' = st.urlCode
        /\ routes' = st.routes
        /\ selectedType' = st.selectedType
        /\ tilesOn' = st.tilesOn
        /\ showStats' = st.showStats
        /\ filteredRoutes' = st.filteredRoutes
        /\ mapBounds' = st.mapBounds
        /\ bounds' = st.bounds
        /\ conquered' = st.conquered
        /\ square' = st.square
        /\ rendered' = st.rendered
        /\ pc' = st.pc

Init == Start(Loaded(FALSE))

\* the "Connect with Strava" link: the browser leaves and comes back with ?code=
ConnectStrava ==
    /\ pc # "unloading"
    /\ ~accessToken
    /\ PageLoad(TRUE)

\* the OAuth effect: the code is exchanged once; ok is res.ok
ExchangeToken(ok) ==
    /\ pc = "idle"
    /\ urlCode /\ ~exchanged
    /\ exchanged' = TRUE
    /\ accessToken' = ok
    /\ pc' = IF ok THEN "fetching" ELSE pc
    /\ UNCHANGED << urlCode, routes, selectedType, tilesOn, showStats, mapBounds >>
    /\ Render(routes, selectedType, tilesOn, showStats, mapBounds, FALSE)

\* the fetch effect of a new token: setRoutes(all)
FetchActivities(all) ==
    /\ pc = "fetching"
    /\ routes' = [id |-> FreshId({ routes.id, filteredRoutes.value.id, conquered.deps }),
                  items |-> all]
    /\ pc' = "idle"
    /\ UNCHANGED << accessToken, exchanged, urlCode, selectedType, tilesOn, showStats,
                    mapBounds >>
    /\ Render(routes', selectedType, tilesOn, showStats, mapBounds, FALSE)

\* a click on a filter option: setSelectedType(opt.type)
SetSelectedType(t) ==
    /\ pc # "unloading"
    /\ accessToken /\ ~showStats
    /\ selectedType' = t
    /\ UNCHANGED << accessToken, exchanged, urlCode, routes, tilesOn, showStats,
                    mapBounds, pc >>
    /\ Render(routes, t, tilesOn, showStats, mapBounds, FALSE)

\* the tiles toggle: setTilesOn((o) => !o)
ToggleTiles ==
    /\ pc # "unloading"
    /\ accessToken /\ ~showStats
    /\ tilesOn' = ~tilesOn
    /\ UNCHANGED << accessToken, exchanged, urlCode, routes, selectedType, showStats,
                    mapBounds, pc >>
    /\ Render(routes, selectedType, ~tilesOn, showStats, mapBounds, FALSE)

\* menu "Statistics": setShowStats(true); the map leaves the tree
ShowStatistics ==
    /\ pc # "unloading"
    /\ accessToken /\ ~showStats
    /\ showStats' = TRUE
    /\ mapBounds' = NoBounds
    /\ UNCHANGED << accessToken, exchanged, urlCode, routes, selectedType, tilesOn, pc >>
    /\ Render(routes, selectedType, tilesOn, TRUE, NoBounds, FALSE)

\* menu "Heatmap": setShowStats(false); a new map at CENTER, ZOOM
ShowHeatmap ==
    /\ pc # "unloading"
    /\ showStats
    /\ showStats' = FALSE
    /\ mapBounds' = InitialViewport
    /\ UNCHANGED << accessToken, exchanged, urlCode, routes, selectedType, tilesOn, pc >>
    /\ Render(routes, selectedType, tilesOn, FALSE, InitialViewport, FALSE)

\* menu "Logout": setAccessToken(null); setRoutes([]); then the page reloads
Logout ==
    /\ pc # "unloading"
    /\ accessToken
    /\ accessToken' = FALSE
    /\ routes' = [id |-> FreshId({ routes.id, filteredRoutes.value.id, conquered.deps }),
                  items |-> << >>]
    /\ pc' = "unloading"
    /\ UNCHANGED << exchanged, urlCode, selectedType, tilesOn, showStats, mapBounds >>
    /\ Render(routes', selectedType, tilesOn, showStats, mapBounds, FALSE)

\* window.location.href = window.location.pathname
Reload ==
    /\ pc = "unloading"
    /\ PageLoad(FALSE)

\* the map has moved to v and fires moveend: setBounds(map.getBounds())
MoveEnd(v) ==
    /\ pc # "unloading"
    /\ ~showStats
    /\ mapBounds' = v
    /\ UNCHANGED << accessToken, exchanged, urlCode, routes, selectedType, tilesOn,
                    showStats, pc >>
    /\ Render(routes, selectedType, tilesOn, showStats, v, TRUE)

\* the map has zoomed to v and fires zoomend: setBounds(map.getBounds())
ZoomEnd(v) ==
    /\ pc # "unloading"
    /\ ~showStats
    /\ mapBounds' = v
    /\ UNCHANGED << accessToken, exchanged, urlCode, routes, selectedType, tilesOn,
                    showStats, pc >>
    /\ Render(routes, selectedType, tilesOn, showStats, v, TRUE)

Next ==
    \/ ConnectStrava
    \/ \E ok \in BOOLEAN : ExchangeToken(ok)
    \/ \E all \in Fetchable : FetchActivities(all)
    \/ \E t \in FilterTypes : SetSelectedType(t)
    \/ ToggleTiles
    \/ ShowStatistics
    \/ ShowHeatmap
    \/ Logout
    \/ Reload
    \/ \E v \in Viewports : MoveEnd(v)
    \/ \E v \in Viewports : ZoomEnd(v)

Spec == Init /\ [][Next]_vars

---------------------------------------------------------------------------
(* Covered sets as inputs: tracks over a small grid of tiles at the origin *)

\* the grid has the tiles (x, y) with x in 0..GridCols-1 and y in GridYs
GridCols == 3
GridYs == { 0, 1, 2 }
GridTiles == { << x, y >> : x \in 0..(GridCols - 1), y \in GridYs }

\* the track point at the centre of the rectangle of tile xy
TilePoint(xy) ==
    LET b == getTileBounds(TemplateKey(xy[1], xy[2]))
    IN  << (b[1][1] + b[2][1]) \div 2, (b[1][2] + b[2][2]) \div 2 >>

\* one activity through the centres of the tiles of the sequence ts
TrackOver(ts) == [coords |-> [ i \in 1..Len(ts) |-> TilePoint(ts[i]) ], type |-> "Ride"]

\* the tiles of T in row order (by y, then x), ascending
RECURSIVE RowOrder(_)
RowOrder(T) ==
    IF T = {} THEN << >>
    ELSE LET m == CHOOSE t \in T :
                    \A u \in T : t[2] < u[2] \/ (t[2] = u[2] /\ t[1] <= u[1])
         IN  << m >> \o RowOrder(T \ { m })

Reverse(s) == [ i \in 1..Len(s) |-> s[Len(s) + 1 - i] ]

\* a viewport over the grid
GridViewport == [sw |-> << 0, 0 >>, ne |-> << 400000, 400000 >>]

\* the page of a signed-in athlete whose fetch has delivered the routes items
\* and who has panned the map to the grid
SignedIn(items) ==
    [Loaded(TRUE) EXCEPT
        !.accessToken = TRUE, !.exchanged = TRUE,
        !.routes = [id |-> 2, items |-> items],
        !.filteredRoutes = [deps |-> << 2, "All" >>, value |-> [id |-> 2, items |-> items]],
        !.mapBounds = GridViewport]

\* every set of grid tiles, visited by one track in ascending or descending
\* row order; the empty set also as no track at all
InitCluster ==
    \E T \in SUBSET GridTiles, desc \in BOOLEAN :
        Start(SignedIn(IF T = {} /\ desc THEN << >>
                       ELSE << TrackOver(IF desc THEN Reverse(RowOrder(T))
                                         ELSE RowOrder(T)) >>))

NextCluster == ToggleTiles

SpecCluster == InitCluster /\ [][NextCluster]_vars

\* the most points the tracks of SpecOrder hold together
MaxPoints == 4

\* the tiles those points lie in: a 2 x 2 block and a tile beside it
OrderTiles == { << 0, 0 >>, << 1, 0 >>, << 0, 1 >>, << 1, 1 >>, << 2, 0 >> }

\* every sequence of at most MaxPoints points, in any order and with
\* repeats, cut into two tracks at any place
InitOrder ==
    \E n \in 0..MaxPoints :
        \E ts \in [1..n -> OrderTiles], cut \in 0..n :
            Start(SignedIn(<< TrackOver(SubSeq(ts, 1, cut)),
                              TrackOver(SubSeq(ts, cut + 1, n)) >>))

NextOrder == ToggleTiles

SpecOrder == InitOrder /\ [][NextOrder]_vars

---------------------------------------------------------------------------
(* Vocabulary of the properties *)

\* the covered set, the cluster and the index box of the ExplorerTiles on screen
Displayed == Mounted(tilesOn, showStats)
CoveredKeys == conquered.value.keys
SquareKeys == square.value
Box == useVisibleTiles(bounds)

\* the tile indices (x, y) of a sequence of keys, as a set
Indices(keys) == { ParseKey(keys[i]) : i \in 1..Len(keys) }

\* the side length of a square of keys
Side(sq) == CHOOSE n \in 0..Len(sq) : n * n = Len(sq)

\* the keys of the square of side n anchored at o
SquareAt(o, n) ==
    { TemplateKey(o[1] + dx, o[2] + dy) : dx \in 0..(n - 1), dy \in 0..(n - 1) }

\* minX <= x <= maxX and minY <= y <= maxY
InBox(xy, box) ==
    /\ box.minX <= xy[1] /\ xy[1] <= box.maxX
    /\ box.minY <= xy[2] /\ xy[2] <= box.maxY

\* the keys of the Rectangles on screen
RenderedKeys == { rendered[i].key : i \in 1..Len(rendered) }

\* all points of all tracks of items
RoutePoints(items) ==
    { items[i].coords[j] : << i, j >> \in
        { ij \in (1..Len(items)) \X (1..8) : ij[2] <= Len(items[ij[1]].coords) } }

\* rectangle b = [[south, west], [north, east]] contains point p
Contains(b, p) ==
    /\ b[1][1] <= p[1] /\ p[1] <= b[2][1]
    /\ b[1][2] <= p[2] /\ p[2] <= b[2][2]

\* point p lies in the viewport v
InViewport(p, v) ==
    /\ v.sw[1] <= p[1] /\ p[1] <= v.ne[1]
    /\ v.sw[2] <= p[2] /\ p[2] <= v.ne[2]

---------------------------------------------------------------------------
(* C1: Scenario C *)

RingTiles == { << x, y >> : x \in 0..2, y \in 0..2 } \ { << 1, 1 >> }
RingKeys == { TemplateKey(t[1], t[2]) : t \in RingTiles }
RingCovered == Displayed /\ Range(CoveredKeys) = RingKeys

\* C1 as stated: for the covered set of the 8 tiles of {0,1,2} x {0,1,2}
\* other than (1,1), the growth loop accepts side length 3 for origin (0,0)
\* and the returned square is the 9 tiles anchored at (0,0), (1,1) included.
C1_RingGivesSize3 ==
    RingCovered =>
        /\ Grow(CoveredKeys, 0, 0, 0) = 3
        /\ Len(SquareKeys) = 9
        /\ Range(SquareKeys) = SquareAt(<< 0, 0 >>, 3)

\* C1 amended: for that covered set the growth check at length 1 inspects
\* (1,1) (at i = 1) and fails, so origin (0,0), like every other origin, is
\* accepted with side length 1 only; the returned square is the single tile
\* that comes first in the covered set's iteration order and does not
\* contain the uncovered tile (1,1).
C1_RingGivesSize1 ==
    RingCovered =>
        /\ ~GrowthCheck(CoveredKeys, 0, 0, 1)
        /\ \A t \in RingTiles : Grow(CoveredKeys, t[1], t[2], 0) = 1
        /\ SquareKeys = << CoveredKeys[1] >>
        /\ TemplateKey(1, 1) \notin Range(SquareKeys)

C1_RingSearched == RingCovered /\ Len(SquareKeys) = 1

---------------------------------------------------------------------------
(* C2: monotonic coverage *)

\* the tiles tried as the added tile: the grid and the ring of tiles around it
AddedTiles == { << x, y >> : x \in (0 - 1)..GridCols, y \in (0 - 1)..3 }

\* C2: adding any tile to the covered set never makes the side length of the
\* square findSquareCluster returns smaller.
C2_AddingATileNeverShrinks ==
    Displayed =>
        \A t \in AddedTiles :
            Side(findSquareCluster(SetAdd(CoveredKeys, TemplateKey(t[1], t[2]))))
                >= Side(SquareKeys)

C2_AddingATileGrows ==
    /\ Displayed
    /\ Side(SquareKeys) = 1
    /\ \E t \in AddedTiles :
           /\ ~SetHas(CoveredKeys, TemplateKey(t[1], t[2]))
           /\ Side(findSquareCluster(SetAdd(CoveredKeys, TemplateKey(t[1], t[2])))) = 2

---------------------------------------------------------------------------
(* C3: tiling inverse containment *)

\* C3: the rectangle getTileBounds(getTileKey(lat, lng)) contains the point
\* (lat, lng), for every point of the loaded routes.
C3_BoundsContainPoint ==
    \A p \in RoutePoints(routes.items) :
        Contains(getTileBounds(getTileKey(p[1], p[2])), p)

---------------------------------------------------------------------------
(* C4: the index box covers the viewport *)

\* C4: every track point inside the viewport has its tile index inside the
\* index box of useVisibleTiles, so that its tile is drawn.
C4_BoxCoversViewport ==
    Displayed =>
        \A p \in RoutePoints(filteredRoutes.value.items) :
            InViewport(p, bounds) =>
                /\ InBox(ParseKey(getTileKey(p[1], p[2])), Box)
                /\ getTileKey(p[1], p[2]) \in RenderedKeys

---------------------------------------------------------------------------
(* C5: visibility containment *)

\* C5: every tile ExplorerTiles draws is in the covered set and has its index
\* inside the index box of the viewport; every covered tile inside the box is
\* drawn, once and in the covered set's order; the covered set is still the
\* one built from the routes.
C5_DrawnAreTheCoveredInBox ==
    Displayed =>
        /\ \A k \in RenderedKeys :
               k \in Range(CoveredKeys) /\ InBox(ParseKey(k), Box)
        /\ \A k \in Range(CoveredKeys) :
               InBox(ParseKey(k), Box) => k \in RenderedKeys
        /\ [ i \in 1..Len(rendered) |-> rendered[i].key ]
               = SelectSeq(CoveredKeys, LAMBDA k : InBox(ParseKey(k), Box))
        /\ CoveredKeys = BuildConquered(filteredRoutes.value.items)

C5_SomeDrawnSomeNot ==
    /\ Displayed
    /\ RenderedKeys # {}
    /\ Range(CoveredKeys) \ RenderedKeys # {}

---------------------------------------------------------------------------
(* C6: determinism under reordering *)

\* the points of P in ascending order (by latitude, then longitude)
RECURSIVE SortPoints(_)
SortPoints(P) ==
    IF P = {} THEN << >>
    ELSE LET m == CHOOSE p \in P :
                    \A q \in P : p[1] < q[1] \/ (p[1] = q[1] /\ p[2] <= q[2])
         IN  << m >> \o SortPoints(P \ { m })

\* the points of the routes as one track in ascending order, and the routes
\* in reverse order with every track reversed
SortedRoutes == << [coords |-> SortPoints(RoutePoints(routes.items)), type |-> "Ride"] >>
ReversedRoutes ==
    [ i \in 1..Len(routes.items) |->
        [coords |-> Reverse(routes.items[Len(routes.items) + 1 - i].coords),
         type |-> "Ride"] ]

\* C6: whatever the order of the tracks and of the points in them, the
\* covered set is the set built from the same points in ascending order (and
\* in reverse order), and findSquareCluster returns a square of the same side
\* length for it and for the covered set iterated in another order.
C6_OrderDoesNotMatter ==
    Displayed =>
        /\ Range(CoveredKeys) = Range(BuildConquered(SortedRoutes))
        /\ Range(CoveredKeys) = Range(BuildConquered(ReversedRoutes))
        /\ Side(SquareKeys) = Side(findSquareCluster(BuildConquered(SortedRoutes)))
        /\ Side(SquareKeys) = Side(findSquareCluster(Reverse(CoveredKeys)))

C6_ReorderedBlock ==
    /\ Displayed
    /\ Side(SquareKeys) = 2
    /\ CoveredKeys # BuildConquered(SortedRoutes)
    /\ \A i \in 1..Len(routes.items) : Len(routes.items[i].coords) > 0

---------------------------------------------------------------------------
(* C7: recomputation *)

\* the routes the filter lets through now
CurrentlyFiltered ==
    IF selectedType = "All" THEN routes.items
    ELSE IF selectedType = "None" THEN << >>
    ELSE SelectSeq(routes.items, LAMBDA r : r.type = selectedType)

UpToDate ==
    Displayed =>
        /\ CoveredKeys = BuildConquered(CurrentlyFiltered)
        /\ SquareKeys = findSquareCluster(BuildConquered(CurrentlyFiltered))
        /\ Box = useVisibleTiles(mapBounds)

ViewportEvent == \E v \in Viewports : MoveEnd(v) \/ ZoomEnd(v)

\* C7: whenever tiles are displayed, the covered set and the cluster are those
\* of the currently filtered routes and the index box is that of the map's
\* latest viewport; a viewport event leaves the covered set and the cluster
\* (the memo cells themselves) as they were.
C7_NeverStale ==
    /\ []UpToDate
    /\ [][ViewportEvent => (conquered' = conquered /\ square' = square)]_vars

C7_FilteredAndMoved ==
    /\ Displayed
    /\ selectedType = "Ride"
    /\ Len(routes.items) > 1
    /\ bounds # InitialViewport
    /\ Len(rendered) > 0

---------------------------------------------------------------------------
(* C8: degenerate inputs *)

\* C8: an empty track list gives an empty covered set; the square is empty
\* exactly when the covered set is; a covered set of one tile gives the
\* square that is exactly that tile.
C8_DegenerateInputs ==
    Displayed =>
        /\ routes.items = << >> => CoveredKeys = << >>
        /\ SquareKeys = << >> <=> CoveredKeys = << >>
        /\ Len(CoveredKeys) = 1 => SquareKeys = CoveredKeys

C8_NoTracks ==
    /\ Displayed
    /\ routes.items = << >>
    /\ CoveredKeys = << >>
    /\ SquareKeys = << >>

---------------------------------------------------------------------------
(* C9: the boundary-growth rule *)

\* at length len some tile of the new row or the new column is not in S
StripFails(S, o, len) ==
    \E i \in 0..len :
        << o[1] + i, o[2] + len >> \notin S \/ << o[1] + len, o[2] + i >> \notin S

\* the least such length
LeastLen(S, o) ==
    CHOOSE len \in 0..Cardinality(S) :
        StripFails(S, o, len) /\ \A l \in 0..(len - 1) : ~StripFails(S, o, l)

BlockKeys == { TemplateKey(0, 0), TemplateKey(1, 0), TemplateKey(0, 1), TemplateKey(1, 1) }
DiagonalKeys == { TemplateKey(0, 0), TemplateKey(1, 1) }

\* C9: the growth loop of every origin ends with the least length at which
\* the new row or column has a tile outside the covered set; the square has
\* the greatest of these lengths as its side and is anchored at the first
\* origin, in iteration order, that attains it; the 2 x 2 block gives size 2
\* and the two diagonal tiles give size 1.
C9_GrowthRule ==
    Displayed =>
        LET S == Indices(CoveredKeys)
            n == Len(CoveredKeys)
            o(i) == ParseKey(CoveredKeys[i])
            size == IF n = 0 THEN 0
                    ELSE CHOOSE m \in { LeastLen(S, o(i)) : i \in 1..n } :
                             \A i \in 1..n : LeastLen(S, o(i)) <= m
        IN  /\ \A i \in 1..n : Grow(CoveredKeys, o(i)[1], o(i)[2], 0) = LeastLen(S, o(i))
            /\ Len(SquareKeys) = size * size
            /\ n > 0 =>
                 LET first == CHOOSE i \in 1..n :
                                  /\ LeastLen(S, o(i)) = size
                                  /\ \A j \in 1..(i - 1) : LeastLen(S, o(j)) < size
                 IN  Range(SquareKeys) = SquareAt(o(first), size)
            /\ Range(CoveredKeys) = BlockKeys => Side(SquareKeys) = 2
            /\ Range(CoveredKeys) = DiagonalKeys => Side(SquareKeys) = 1

\* two origins attain the greatest length 2
C9_TwoBestOrigins ==
    /\ Displayed
    /\ Side(SquareKeys) = 2
    /\ \E i, j \in 1..Len(CoveredKeys) :
           /\ i < j
           /\ LeastLen(Indices(CoveredKeys), ParseKey(CoveredKeys[i])) = 2
           /\ LeastLen(Indices(CoveredKeys), ParseKey(CoveredKeys[j])) = 2

---------------------------------------------------------------------------
(* C10: the square holds covered tiles only *)

\* C10: every tile index of the returned square is in the covered set, and
\* ExplorerTiles draws every tile of the square as a cluster member.
C10_SquareIsCovered ==
    Displayed =>
        /\ Range(SquareKeys) \subseteq Range(CoveredKeys)
        /\ \A k \in Range(SquareKeys) :
               \E i \in 1..Len(rendered) : rendered[i].key = k /\ rendered[i].isSq

\* a square of side 2 inside a covered set that is not a square
C10_SquareInLargerSet ==
    /\ Displayed
    /\ Side(SquareKeys) = 2
    /\ Len(CoveredKeys) > 5

---------------------------------------------------------------------------
(* C11: the square against an exhaustive search *)

\* every origin a square over tiles of S can have, and a margin around them
Origins(S) ==
    IF S = {} THEN { << 0, 0 >> }
    ELSE LET xs == { t[1] : t \in S }
             ys == { t[2] : t \in S }
             lo(A) == CHOOSE a \in A : \A b \in A : a <= b
             hi(A) == CHOOSE a \in A : \A b \in A : b <= a
         IN  ((lo(xs) - 1)..(hi(xs) + 1)) \X ((lo(ys) - 1)..(hi(ys) + 1))

\* all n * n tiles (x + dx, y + dy), 0 <= dx, dy < n, are in S
FullyCovered(S, o, n) ==
    \A dx \in 0..(n - 1), dy \in 0..(n - 1) : << o[1] + dx, o[2] + dy >> \in S

\* the largest n for which some origin has its n x n square fully in S
LargestSquare(S) ==
    CHOOSE n \in 0..Cardinality(S) :
        /\ \E o \in Origins(S) : FullyCovered(S, o, n)
        /\ \A m \in (n + 1)..(Cardinality(S) + 1) :
               \A o \in Origins(S) : ~FullyCovered(S, o, m)

\* C11: for every covered set the side length found by findSquareCluster is
\* the side of the largest fully covered axis-aligned square, as an
\* exhaustive search over all origins and all sides finds it, and the
\* returned square has that many tiles squared.
C11_MatchesExhaustiveSearch ==
    Displayed =>
        LET n == LargestSquare(Indices(CoveredKeys))
        IN  /\ FindBest(CoveredKeys).size = n
            /\ Len(SquareKeys) = n * n

\* the largest square has side 2 and is not anchored at the first covered
\* tile, and at some covered tile the new row and column are covered up to
\* the corner, which is not
C11_CornerDecides ==
    /\ Displayed
    /\ LargestSquare(Indices(CoveredKeys)) = 2
    /\ Len(SquareKeys) = 4
    /\ ~FullyCovered(Indices(CoveredKeys), ParseKey(CoveredKeys[1]), 2)
    /\ \E o \in Indices(CoveredKeys) :
           /\ << o[1] + 1, o[2] >> \in Indices(CoveredKeys)
           /\ << o[1], o[2] + 1 >> \in Indices(CoveredKeys)
           /\ << o[1] + 1, o[2] + 1 >> \notin Indices(CoveredKeys)

=============================================================================
